---- MODULE Spec2Model ----
(***************************************************************************)
(* A model of the image resizer of src/main.js: the Vue setup() state, its *)
(* handlers (file load, render, eyedropper, presets, export), its two      *)
(* watchers and its asynchronous completions.                              *)
(***************************************************************************)
EXTENDS Integers, Sequences, FiniteSets, TLC

(***************************************************************************)
(* Bounds of the model.                                                    *)
(***************************************************************************)
\* A non-integer number is a multiple of 1/Den.
Den == 4
\* How far (in whole units) the clampDimension inputs reach around 0 and 8000.
ClampSpan == 3

(***************************************************************************)
(* Program constants.                                                      *)
(***************************************************************************)
MinDimension == 1
MaxDimension == 8000
InitialTargetWidth == 1200
InitialTargetHeight == 628

(***************************************************************************)
(* JavaScript values.  A value is a record [t, n]: t is the kind and, for  *)
(* a finite number, n is its numerator over Den.                           *)
(***************************************************************************)
Num(n) == [t |-> "number", n |-> n]
Whole(i) == Num(i * Den)
NaN == [t |-> "NaN", n |-> 0]
PosInfinity == [t |-> "Infinity", n |-> 0]
NegInfinity == [t |-> "-Infinity", n |-> 0]
EmptyString == [t |-> "string", n |-> 0]
Undefined == [t |-> "undefined", n |-> 0]

\* ToBoolean: 0, NaN, "" and undefined are falsy.
Truthy(v) ==
    \/ v.t = "number" /\ v.n # 0
    \/ v.t \in {"Infinity", "-Infinity"}

\* a || b
Or(a, b) == IF Truthy(a) THEN a ELSE b

\* Number.isFinite: false for every non-number and for NaN and the infinities.
NumberIsFinite(v) == v.t = "number"

\* Math.round of n/Den: the nearest integer, a tie going to +Infinity.
MathRound(n) == (2 * n + Den) \div (2 * Den)

Min(a, b) == IF a <= b THEN a ELSE b
Max(a, b) == IF a >= b THEN a ELSE b

\* A clampDimension that forgets the lower limit.
clampDimensionNoFloor(value) ==
    IF ~NumberIsFinite(value) THEN 1
    ELSE Min(MathRound(value.n), MaxDimension)

\* clampDimension (an integer).
clampDimension(value) ==
    IF ~NumberIsFinite(value) THEN 1
    ELSE Min(Max(MathRound(value.n), MinDimension), MaxDimension)

(***************************************************************************)
(* Strings that the code trims or cuts are sequences of characters; the    *)
(* others are atomic.                                                      *)
(***************************************************************************)
RECURSIVE TrimStart(_)
TrimStart(s) ==
    IF s # <<>> /\ Head(s) = " " THEN TrimStart(Tail(s)) ELSE s

RECURSIVE TrimEnd(_)
TrimEnd(s) ==
    IF s # <<>> /\ s[Len(s)] = " " THEN TrimEnd(SubSeq(s, 1, Len(s) - 1)) ELSE s

\* A savePreset that takes the name as typed.
TrimNothing(s) == s

\* String.prototype.trim
Trim(s) == TrimEnd(TrimStart(s))

\* A string field that an object does not have reads as undefined.
Absent == "undefined"

\* s || d for a string field: undefined and "" are falsy.
OrString(s, d) == IF s = Absent \/ s = "" THEN d ELSE s

(***************************************************************************)
(* The state of setup().                                                   *)
(***************************************************************************)
VARIABLES
    mounted,            \* onMounted has run: canvas.value is the element
    uncaught,           \* an exception has left a handler
    devicePixelRatio,   \* window.devicePixelRatio, a rational [n, d] (0: unset)
    imageLoaded, srcImage, srcWidth, srcHeight, srcName,
    targetWidth, targetHeight, targetFormat,
    aspectMode, backgroundMode, backgroundColor,
    isPickingColor,
    presetName, presets,
    storage,            \* what localStorage holds under PRESETS_STORAGE_KEY
    storageWritable,    \* whether localStorage.setItem succeeds in this session
    canvas,             \* the surface of canvas.value
    loads,              \* files being read and decoded, in the order requested
    exports,            \* surfaces handed to toBlob, not yet encoded
    lastDownload,       \* the last file offered for download
    specJob,            \* the callback of watch([targetWidth, ...]) is queued
    presetsJob,         \* the callback of watch(presets) is queued
    saved,              \* history: the name and the spec of the last savePreset
    callArg, callRes    \* the argument and the result of a pure function's call

sessionVars ==
    <<mounted, uncaught, devicePixelRatio, imageLoaded, srcImage, srcWidth,
      srcHeight, srcName, targetWidth, targetHeight, targetFormat, aspectMode,
      backgroundMode, backgroundColor, isPickingColor, presetName, presets,
      storage, storageWritable, canvas, loads, exports, lastDownload, specJob,
      presetsJob, saved>>

callVars == <<callArg, callRes>>

vars == <<sessionVars, callVars>>

\* A watcher whose source is the two dimensions only.
WatchedDimensions(tw, th, am, bm, bc) == <<tw, th>>

\* The five refs the first watcher watches.
Watched(tw, th, am, bm, bc) == <<tw, th, am, bm, bc>>

\* const dpr = window.devicePixelRatio || 1
dpr == IF devicePixelRatio.n = 0 THEN [n |-> 1, d |-> 1] ELSE devicePixelRatio

(***************************************************************************)
(* The files a user can hand to the page.  kind: the MIME type; name: the  *)
(* file name cut at its dots; decodes: whether read and decode succeed;    *)
(* width, height: the decoded image's natural size; pixel: the colour of   *)
(* its pixels.  File 0 is no file at all.                                  *)
(***************************************************************************)
NoFile == 0

File(f) ==
    CASE f = 1 -> [kind |-> "image/heic", name |-> <<"photo", "heic">>,
                   decodes |-> TRUE, width |-> 300, height |-> 200]
      [] f = 2 -> [kind |-> "image/png", name |-> <<"">>,
                   decodes |-> TRUE, width |-> 9000, height |-> 50]
      [] f = 3 -> [kind |-> "image/png", name |-> <<"broken", "png">>,
                   decodes |-> FALSE, width |-> 0, height |-> 0]
      [] f = 4 -> [kind |-> "text/plain", name |-> <<"notes", "txt">>,
                   decodes |-> FALSE, width |-> 0, height |-> 0]
      [] f = 5 -> [kind |-> "image/png", name |-> <<"", "png">>,
                   decodes |-> TRUE, width |-> 64, height |-> 64]
      [] f = 6 -> [kind |-> "image/jpeg", name |-> <<"archive", "tar", "gz">>,
                   decodes |-> TRUE, width |-> 64, height |-> 64]
      [] f = 7 -> [kind |-> "image/png", name |-> <<"photo", "">>,
                   decodes |-> TRUE, width |-> 64, height |-> 64]
      [] OTHER -> [kind |-> "", name |-> <<"">>,
                   decodes |-> FALSE, width |-> 0, height |-> 0]

\* file.type.startsWith("image/")
IsImageType(kind) == kind \in {"image/heic", "image/png", "image/jpeg"}

\* srcImage.value is an image (the file it was decoded from) or null.
NoImage == 0

(***************************************************************************)
(* The surface of the canvas: its size in pixels, what was painted on it   *)
(* and with which options.                                                 *)
(***************************************************************************)
\* canvas.value before onMounted.
NullCanvas ==
    [el |-> FALSE, width |-> 0, height |-> 0, logicalWidth |-> 0,
     logicalHeight |-> 0, fill |-> "transparent", image |-> NoImage, sw |-> 0,
     sh |-> 0, mode |-> "none", border |-> FALSE, forExport |-> FALSE]

\* The element of the template, not yet painted (an HTML canvas is 300 x 150).
BlankCanvas == [NullCanvas EXCEPT !.el = TRUE, !.width = 300, !.height = 150]

\* A surface sized in logical units, the density forgotten.
PixelsUnscaled(logical) == logical

\* canvas.value.width = width * dpr: the attribute is an integer, cut toward zero.
Pixels(logical) == (logical * dpr.n) \div dpr.d

\* A renderCanvas that strokes the border whatever its options say.
StrokesBorderAlways(drawn, forExport) == drawn

\* Whether renderCanvas strokes the 1px border: only past the returns taken
\* when there is no image to draw, and only when not rendering for export.
StrokesBorder(drawn, forExport) == drawn /\ ~forExport

\* renderCanvas(opts): the new targetWidth, targetHeight and surface.
renderCanvas(cv, tw, th, am, bm, bc, img, sw, sh, forExport) ==
    IF ~cv.el THEN [targetWidth |-> tw, targetHeight |-> th, canvas |-> cv]
    ELSE
      LET width == clampDimension(Or(Or(tw, Whole(sw)), Whole(1)))
          height == clampDimension(Or(Or(th, Whole(sh)), Whole(1)))
          iw == IF sw # 0 THEN sw ELSE IF img # NoImage THEN File(img).width ELSE 0
          ih == IF sh # 0 THEN sh ELSE IF img # NoImage THEN File(img).height ELSE 0
          drawn == img # NoImage /\ iw # 0 /\ ih # 0
      IN  [targetWidth |-> Whole(width),
           targetHeight |-> Whole(height),
           canvas |->
             [el |-> TRUE,
              width |-> Pixels(width),
              height |-> Pixels(height),
              logicalWidth |-> width,
              logicalHeight |-> height,
              fill |-> IF bm = "color" THEN OrString(bc, "#ffffff")
                       ELSE "transparent",
              image |-> IF drawn THEN img ELSE NoImage,
              sw |-> IF drawn THEN iw ELSE 0,
              sh |-> IF drawn THEN ih ELSE 0,
              mode |-> IF drawn THEN (IF am = "fill" THEN "fill" ELSE "fit")
                       ELSE "none",
              border |-> StrokesBorder(drawn, forExport),
              forExport |-> forExport]]

(***************************************************************************)
(* Presets and their storage.                                              *)
(***************************************************************************)
\* What localStorage.getItem returns: nothing, text JSON.parse rejects, the
\* JSON text of a value that is no array, or the JSON text of an array of
\* presets.  "disabled": getItem itself throws.
StoredArray(items) == [kind |-> "array", items |-> items]
StoredMissing == [kind |-> "missing", items |-> <<>>]
StoredCorrupt == [kind |-> "corrupt", items |-> <<>>]
StoredObject == [kind |-> "object", items |-> <<>>]
StorageDisabled == [kind |-> "disabled", items |-> <<>>]

\* JSON.stringify of one number field: NaN and the infinities are written as
\* null; a finite number, a string and a lacking field are written as they are.
Null == [t |-> "null", n |-> 0]
JSONnumber(v) == IF v.t \in {"NaN", "Infinity", "-Infinity"} THEN Null ELSE v

\* JSON.stringify(presets.value): the text of an array, a string field written
\* as it is and a field the object lacks not written.
JSONstringify(ps) ==
    StoredArray([i \in DOMAIN ps |->
                   [ps[i] EXCEPT !.width = JSONnumber(@), !.height = JSONnumber(@)]])

\* JSON.parse of the text of an array: the values the text holds.
JSONparse(st) == st.items

\* loadPresets with its try/catch left out: a throw leaves the handler.
loadPresetsUnguarded(st, ps) ==
    CASE st.kind = "disabled" -> [presets |-> ps, set |-> FALSE, threw |-> TRUE]
      [] st.kind = "missing" -> [presets |-> ps, set |-> FALSE, threw |-> FALSE]
      [] st.kind = "corrupt" -> [presets |-> ps, set |-> FALSE, threw |-> TRUE]
      [] st.kind = "array" -> [presets |-> st.items, set |-> TRUE, threw |-> FALSE]
      [] OTHER -> [presets |-> ps, set |-> FALSE, threw |-> FALSE]

\* loadPresets: the new presets.value, whether it was assigned, and whether
\* an exception left the function.
loadPresets(st, ps) ==
    CASE st.kind = "disabled" -> [presets |-> ps, set |-> FALSE, threw |-> FALSE]
      [] st.kind = "missing" -> [presets |-> ps, set |-> FALSE, threw |-> FALSE]
      [] st.kind = "corrupt" -> [presets |-> ps, set |-> FALSE, threw |-> FALSE]
      [] st.kind = "array" -> [presets |-> st.items, set |-> TRUE, threw |-> FALSE]
      [] OTHER -> [presets |-> ps, set |-> FALSE, threw |-> FALSE]

\* A savePresetsToStorage that never reaches setItem.
savePresetsNowhere(st, ps) == st

\* savePresetsToStorage: the new content of the storage; a throw of setItem
\* is caught and leaves the content as it was.
savePresetsToStorage(st, ps) ==
    IF storageWritable THEN JSONstringify(ps) ELSE st

\* applyPreset's assignments (before its renderCanvas).
applyFields(preset) ==
    [targetWidth |-> Whole(clampDimension(preset.width)),
     targetHeight |-> Whole(clampDimension(preset.height)),
     targetFormat |-> OrString(preset.format, "image/png"),
     backgroundMode |-> OrString(preset.backgroundMode, "transparent"),
     backgroundColor |-> OrString(preset.backgroundColor, "#ffffff")]

\* More bounds: the longest preset list savePreset appends to, and the most
\* loads and encodes in flight at once.
MaxPresets == 2
MaxLoads == 2
MaxExports == 2

NoSaved == [name |-> <<>>, valid |-> FALSE, width |-> Undefined,
            height |-> Undefined, format |-> "", fitMode |-> "",
            backgroundMode |-> "", backgroundColor |-> ""]

NoDownload ==
    [filename |-> [base |-> <<>>, width |-> 0, height |-> 0, ext |-> ""],
     border |-> FALSE, width |-> 0, height |-> 0]

\* The state setup() leaves, with the environment's storage and density.
InitSession(storages, densities) ==
    /\ mounted = FALSE
    /\ uncaught = FALSE
    /\ devicePixelRatio \in densities
    /\ imageLoaded = FALSE
    /\ srcImage = NoImage
    /\ srcWidth = 0
    /\ srcHeight = 0
    /\ srcName = <<"image">>
    /\ targetWidth = Whole(InitialTargetWidth)
    /\ targetHeight = Whole(InitialTargetHeight)
    /\ targetFormat = "image/png"
    /\ aspectMode = "fit"
    /\ backgroundMode = "transparent"
    /\ backgroundColor = "#ffffff"
    /\ isPickingColor = FALSE
    /\ presetName = <<>>
    /\ presets = <<>>
    /\ storage \in storages
    /\ storageWritable \in IF storage.kind = "disabled" THEN {FALSE} ELSE BOOLEAN
    /\ canvas = NullCanvas
    /\ loads = <<>>
    /\ exports = <<>>
    /\ lastDownload = NoDownload
    /\ specJob = FALSE
    /\ presetsJob = FALSE
    /\ saved = NoSaved

\* Whether an assignment of these values to the watched refs changes one.
SpecChanged(tw, th, am, bm, bc) ==
    Watched(tw, th, am, bm, bc)
      # Watched(targetWidth, targetHeight, aspectMode, backgroundMode,
                backgroundColor)

\* No watcher callback is queued: the next task can run.
Idle == mounted /\ ~specJob /\ ~presetsJob

Remove(seq, k) == SubSeq(seq, 1, k - 1) \o SubSeq(seq, k + 1, Len(seq))

(***************************************************************************)
(* onMounted.                                                              *)
(***************************************************************************)
onMounted ==
    /\ ~mounted
    /\ mounted' = TRUE
    /\ LET l == loadPresets(storage, presets)
           first == applyFields(l.presets[1])
           r == IF l.threw
                  THEN [targetWidth |-> targetWidth, targetHeight |-> targetHeight,
                        canvas |-> BlankCanvas]
                ELSE IF Len(l.presets) > 0
                  THEN renderCanvas(BlankCanvas, first.targetWidth,
                         first.targetHeight, aspectMode, first.backgroundMode,
                         first.backgroundColor, srcImage, srcWidth, srcHeight,
                         FALSE)
                ELSE renderCanvas(BlankCanvas, targetWidth, targetHeight,
                         aspectMode, backgroundMode, backgroundColor, srcImage,
                         srcWidth, srcHeight, FALSE)
           applied == ~l.threw /\ Len(l.presets) > 0
       IN  /\ uncaught' = l.threw
           /\ presets' = l.presets
           /\ presetsJob' = l.set
           /\ targetWidth' = r.targetWidth
           /\ targetHeight' = r.targetHeight
           /\ targetFormat' = IF applied THEN first.targetFormat ELSE targetFormat
           /\ backgroundMode' =
                IF applied THEN first.backgroundMode ELSE backgroundMode
           /\ backgroundColor' =
                IF applied THEN first.backgroundColor ELSE backgroundColor
           /\ isPickingColor' = IF applied THEN FALSE ELSE isPickingColor
           /\ canvas' = r.canvas
           /\ specJob' = SpecChanged(targetWidth', targetHeight', aspectMode,
                                     backgroundMode', backgroundColor')
    /\ UNCHANGED <<devicePixelRatio, imageLoaded, srcImage, srcWidth, srcHeight,
                   srcName, aspectMode, presetName, storage, storageWritable,
                   loads, exports, lastDownload, saved, callVars>>

(***************************************************************************)
(* The watchers, run after the handler that queued them.                   *)
(***************************************************************************)
\* watch([targetWidth, targetHeight, aspectMode, backgroundMode, backgroundColor])
watchTargetSpec ==
    /\ specJob
    /\ LET r == IF imageLoaded
                  THEN renderCanvas(canvas, targetWidth, targetHeight, aspectMode,
                         backgroundMode, backgroundColor, srcImage, srcWidth,
                         srcHeight, FALSE)
                ELSE [targetWidth |-> targetWidth, targetHeight |-> targetHeight,
                      canvas |-> canvas]
       IN  /\ targetWidth' = r.targetWidth
           /\ targetHeight' = r.targetHeight
           /\ canvas' = r.canvas
           /\ specJob' = SpecChanged(targetWidth', targetHeight', aspectMode,
                                     backgroundMode, backgroundColor)
    /\ UNCHANGED <<mounted, uncaught, devicePixelRatio, imageLoaded, srcImage,
                   srcWidth, srcHeight, srcName, targetFormat, aspectMode,
                   backgroundMode, backgroundColor, isPickingColor, presetName,
                   presets, storage, storageWritable, loads, exports,
                   lastDownload, presetsJob, saved, callVars>>

\* watch(presets, ..., { deep: true })
watchPresets ==
    /\ presetsJob
    /\ ~specJob
    /\ presetsJob' = FALSE
    /\ storage' = savePresetsToStorage(storage, presets)
    /\ UNCHANGED <<mounted, uncaught, devicePixelRatio, imageLoaded, srcImage,
                   srcWidth, srcHeight, srcName, targetWidth, targetHeight,
                   targetFormat, aspectMode, backgroundMode, backgroundColor,
                   isPickingColor, presetName, presets, storageWritable, canvas,
                   loads, exports, lastDownload, specJob, saved, callVars>>

(***************************************************************************)
(* The template's bindings: the user sets a ref the setup() returns.       *)
(***************************************************************************)
EditTargetWidth(v) ==
    /\ Idle
    /\ targetWidth' = v
    /\ specJob' = SpecChanged(v, targetHeight, aspectMode, backgroundMode,
                            backgroundColor)
    /\ UNCHANGED <<mounted, uncaught, devicePixelRatio, imageLoaded, srcImage,
                   srcWidth, srcHeight, srcName, targetHeight, targetFormat,
                   aspectMode, backgroundMode, backgroundColor, isPickingColor,
                   presetName, presets, storage, storageWritable, canvas, loads,
                   exports, lastDownload, presetsJob, saved, callVars>>

EditTargetHeight(v) ==
    /\ Idle
    /\ targetHeight' = v
    /\ specJob' = SpecChanged(targetWidth, v, aspectMode, backgroundMode,
                            backgroundColor)
    /\ UNCHANGED <<mounted, uncaught, devicePixelRatio, imageLoaded, srcImage,
                   srcWidth, srcHeight, srcName, targetWidth, targetFormat,
                   aspectMode, backgroundMode, backgroundColor, isPickingColor,
                   presetName, presets, storage, storageWritable, canvas, loads,
                   exports, lastDownload, presetsJob, saved, callVars>>

SelectTargetFormat(f) ==
    /\ Idle
    /\ targetFormat' = f
    /\ UNCHANGED <<mounted, uncaught, devicePixelRatio, imageLoaded, srcImage,
                   srcWidth, srcHeight, srcName, targetWidth, targetHeight,
                   aspectMode, backgroundMode, backgroundColor, isPickingColor,
                   presetName, presets, storage, storageWritable, canvas, loads,
                   exports, lastDownload, specJob, presetsJob, saved, callVars>>

SelectAspectMode(m) ==
    /\ Idle
    /\ aspectMode' = m
    /\ specJob' = SpecChanged(targetWidth, targetHeight, m, backgroundMode,
                            backgroundColor)
    /\ UNCHANGED <<mounted, uncaught, devicePixelRatio, imageLoaded, srcImage,
                   srcWidth, srcHeight, srcName, targetWidth, targetHeight,
                   targetFormat, backgroundMode, backgroundColor, isPickingColor,
                   presetName, presets, storage, storageWritable, canvas, loads,
                   exports, lastDownload, presetsJob, saved, callVars>>

SelectBackgroundMode(m) ==
    /\ Idle
    /\ backgroundMode' = m
    /\ specJob' = SpecChanged(targetWidth, targetHeight, aspectMode, m,
                            backgroundColor)
    /\ UNCHANGED <<mounted, uncaught, devicePixelRatio, imageLoaded, srcImage,
                   srcWidth, srcHeight, srcName, targetWidth, targetHeight,
                   targetFormat, aspectMode, backgroundColor, isPickingColor,
                   presetName, presets, storage, storageWritable, canvas, loads,
                   exports, lastDownload, presetsJob, saved, callVars>>

EditBackgroundColor(c) ==
    /\ Idle
    /\ backgroundColor' = c
    /\ specJob' = SpecChanged(targetWidth, targetHeight, aspectMode,
                            backgroundMode, c)
    /\ UNCHANGED <<mounted, uncaught, devicePixelRatio, imageLoaded, srcImage,
                   srcWidth, srcHeight, srcName, targetWidth, targetHeight,
                   targetFormat, aspectMode, backgroundMode, isPickingColor,
                   presetName, presets, storage, storageWritable, canvas, loads,
                   exports, lastDownload, presetsJob, saved, callVars>>

TypePresetName(n) ==
    /\ Idle
    /\ presetName' = n
    /\ UNCHANGED <<mounted, uncaught, devicePixelRatio, imageLoaded, srcImage,
                   srcWidth, srcHeight, srcName, targetWidth, targetHeight,
                   targetFormat, aspectMode, backgroundMode, backgroundColor,
                   isPickingColor, presets, storage, storageWritable, canvas,
                   loads, exports, lastDownload, specJob, presetsJob, saved,
                   callVars>>

(***************************************************************************)
(* Loading a file: handleFile, then the reader's and the image's onload.   *)
(***************************************************************************)
\* file.name || "image"
FileNameOr(name) == IF name = <<"">> THEN <<"image">> ELSE name

\* handleFile(file), as onFileChange and onDrop call it.
handleFile(f) ==
    /\ Idle
    /\ IF f = NoFile \/ ~IsImageType(File(f).kind)
         THEN UNCHANGED <<srcName, loads>>
         ELSE /\ Len(loads) < MaxLoads
              /\ srcName' = FileNameOr(File(f).name)
              /\ loads' = Append(loads, f)
    /\ UNCHANGED <<mounted, uncaught, devicePixelRatio, imageLoaded, srcImage,
                   srcWidth, srcHeight, targetWidth, targetHeight, targetFormat,
                   aspectMode, backgroundMode, backgroundColor, isPickingColor,
                   presetName, presets, storage, storageWritable, canvas,
                   exports, lastDownload, specJob, presetsJob, saved, callVars>>

\* onPaste(event) with this file on the clipboard: srcName is set to
\* "pasted-image" and handleFile then sets it again.
onPaste(f) ==
    /\ Idle
    /\ IF f = NoFile \/ ~IsImageType(File(f).kind)
         THEN UNCHANGED <<srcName, loads>>
         ELSE /\ Len(loads) < MaxLoads
              /\ srcName' = FileNameOr(File(f).name)
              /\ loads' = Append(loads, f)
    /\ UNCHANGED <<mounted, uncaught, devicePixelRatio, imageLoaded, srcImage,
                   srcWidth, srcHeight, targetWidth, targetHeight, targetFormat,
                   aspectMode, backgroundMode, backgroundColor, isPickingColor,
                   presetName, presets, storage, storageWritable, canvas,
                   exports, lastDownload, specJob, presetsJob, saved, callVars>>

\* reader.onload and then img.onload of the k-th load in flight (the reader's
\* callback only starts the decode).
imgOnload(k) ==
    /\ Idle
    /\ k \in DOMAIN loads
    /\ File(loads[k]).decodes
    /\ LET img == loads[k]
           unset == ~Truthy(targetWidth) \/ ~Truthy(targetHeight)
           tw == IF unset THEN Whole(clampDimension(Whole(File(img).width)))
                 ELSE targetWidth
           th == IF unset THEN Whole(clampDimension(Whole(File(img).height)))
                 ELSE targetHeight
           r == renderCanvas(canvas, tw, th, aspectMode, backgroundMode,
                             backgroundColor, img, File(img).width,
                             File(img).height, FALSE)
       IN  /\ srcImage' = img
           /\ srcWidth' = File(img).width
           /\ srcHeight' = File(img).height
           /\ targetWidth' = r.targetWidth
           /\ targetHeight' = r.targetHeight
           /\ canvas' = r.canvas
           /\ specJob' = SpecChanged(targetWidth', targetHeight', aspectMode,
                                     backgroundMode, backgroundColor)
    /\ imageLoaded' = TRUE
    /\ isPickingColor' = FALSE
    /\ loads' = Remove(loads, k)
    /\ UNCHANGED <<mounted, uncaught, devicePixelRatio, srcName, targetFormat,
                   aspectMode, backgroundMode, backgroundColor, presetName,
                   presets, storage, storageWritable, exports, lastDownload,
                   presetsJob, saved, callVars>>

\* The k-th load in flight fails to read or decode: neither onload runs.
loadFails(k) ==
    /\ Idle
    /\ k \in DOMAIN loads
    /\ ~File(loads[k]).decodes
    /\ loads' = Remove(loads, k)
    /\ UNCHANGED <<mounted, uncaught, devicePixelRatio, imageLoaded, srcImage,
                   srcWidth, srcHeight, srcName, targetWidth, targetHeight,
                   targetFormat, aspectMode, backgroundMode, backgroundColor,
                   isPickingColor, presetName, presets, storage,
                   storageWritable, canvas, exports, lastDownload, specJob,
                   presetsJob, saved, callVars>>

(***************************************************************************)
(* The eyedropper.                                                         *)
(***************************************************************************)
startEyedropper ==
    /\ Idle
    /\ isPickingColor' = IF imageLoaded THEN TRUE ELSE isPickingColor
    /\ UNCHANGED <<mounted, uncaught, devicePixelRatio, imageLoaded, srcImage,
                   srcWidth, srcHeight, srcName, targetWidth, targetHeight,
                   targetFormat, aspectMode, backgroundMode, backgroundColor,
                   presetName, presets, storage, storageWritable, canvas, loads,
                   exports, lastDownload, specJob, presetsJob, saved, callVars>>

\* The colour of the images' pixels, and of a pixel nothing was painted on
\* (transparent black, whose r, g, b are 0).
ImagePixel == "#1a2b3c"
ClearPixel == "#000000"

\* rgbaToHex of the pixel getImageData can return, wherever the click lands.
SampledColors(cv) ==
    {IF cv.fill = "transparent" THEN ClearPixel ELSE cv.fill}
      \cup (IF cv.image # NoImage THEN {ImagePixel} ELSE {})

\* onCanvasClick(event), the click landing on a pixel of colour hex.
onCanvasClick(hex) ==
    /\ Idle
    /\ hex \in SampledColors(canvas)
    /\ IF ~isPickingColor \/ ~canvas.el
         THEN UNCHANGED <<targetWidth, targetHeight, backgroundMode,
                          backgroundColor, isPickingColor, canvas, specJob>>
         ELSE LET r == renderCanvas(canvas, targetWidth, targetHeight,
                         aspectMode, "color", hex, srcImage, srcWidth, srcHeight,
                         FALSE)
              IN  /\ backgroundColor' = hex
                  /\ backgroundMode' = "color"
                  /\ isPickingColor' = FALSE
                  /\ targetWidth' = r.targetWidth
                  /\ targetHeight' = r.targetHeight
                  /\ canvas' = r.canvas
                  /\ specJob' = SpecChanged(targetWidth', targetHeight',
                                  aspectMode, "color", hex)
    /\ UNCHANGED <<mounted, uncaught, devicePixelRatio, imageLoaded, srcImage,
                   srcWidth, srcHeight, srcName, targetFormat, aspectMode,
                   presetName, presets, storage, storageWritable, loads, exports,
                   lastDownload, presetsJob, saved, callVars>>

(***************************************************************************)
(* Presets: savePreset, applyPreset, deletePreset.                         *)
(***************************************************************************)
\* presets.value.findIndex((p) => p.name === name): the first index, or 0.
RECURSIVE findIndexFrom(_, _, _)
findIndexFrom(ps, name, i) ==
    IF i > Len(ps) THEN 0
    ELSE IF ps[i].name = name THEN i
    ELSE findIndexFrom(ps, name, i + 1)

findIndex(ps, name) == findIndexFrom(ps, name, 1)

\* The object savePreset builds.
NewPreset(name) ==
    [name |-> name,
     width |-> Whole(clampDimension(targetWidth)),
     height |-> Whole(clampDimension(targetHeight)),
     format |-> targetFormat,
     backgroundMode |-> backgroundMode,
     backgroundColor |-> backgroundColor]

\* A savePreset that always pushes.
UpsertAppends(ps, preset) == Append(ps, preset)

\* splice(existingIndex, 1, preset) when the name is found, push otherwise.
Upsert(ps, preset) ==
    LET existingIndex == findIndex(ps, preset.name)
    IN  IF existingIndex >= 1
          THEN [ps EXCEPT ![existingIndex] = preset]
          ELSE Append(ps, preset)

\* A spec as the data model states it: the dimensions clamped integers.
ValidDimension(v) ==
    /\ v.t = "number"
    /\ v.n % Den = 0
    /\ v.n \div Den >= MinDimension
    /\ v.n \div Den <= MaxDimension

savePreset ==
    /\ Idle
    /\ LET name == Trim(presetName)
       IN  IF name = <<>>
             THEN UNCHANGED <<presets, presetName, storage, presetsJob, saved>>
             ELSE /\ Len(Upsert(presets, NewPreset(name))) <= MaxPresets
                  /\ presets' = Upsert(presets, NewPreset(name))
                  /\ presetName' = <<>>
                  /\ storage' = savePresetsToStorage(storage, presets')
                  /\ presetsJob' = TRUE
                  /\ saved' = [name |-> name,
                               valid |-> ValidDimension(targetWidth)
                                           /\ ValidDimension(targetHeight),
                               width |-> targetWidth,
                               height |-> targetHeight,
                               format |-> targetFormat,
                               fitMode |-> aspectMode,
                               backgroundMode |-> backgroundMode,
                               backgroundColor |-> backgroundColor]
    /\ UNCHANGED <<mounted, uncaught, devicePixelRatio, imageLoaded, srcImage,
                   srcWidth, srcHeight, srcName, targetWidth, targetHeight,
                   targetFormat, aspectMode, backgroundMode, backgroundColor,
                   isPickingColor, storageWritable, canvas, loads, exports,
                   lastDownload, specJob, callVars>>

\* applyPreset(preset), preset the i-th of the list, or no preset when i = 0.
applyPreset(i) ==
    /\ Idle
    /\ i \in 0..Len(presets)
    /\ IF i = 0
         THEN UNCHANGED <<targetWidth, targetHeight, targetFormat,
                          backgroundMode, backgroundColor, isPickingColor,
                          canvas, specJob>>
         ELSE LET a == applyFields(presets[i])
                  r == renderCanvas(canvas, a.targetWidth, a.targetHeight,
                         aspectMode, a.backgroundMode, a.backgroundColor,
                         srcImage, srcWidth, srcHeight, FALSE)
              IN  /\ targetWidth' = r.targetWidth
                  /\ targetHeight' = r.targetHeight
                  /\ targetFormat' = a.targetFormat
                  /\ backgroundMode' = a.backgroundMode
                  /\ backgroundColor' = a.backgroundColor
                  /\ isPickingColor' = FALSE
                  /\ canvas' = r.canvas
                  /\ specJob' = SpecChanged(targetWidth', targetHeight',
                                  aspectMode, backgroundMode', backgroundColor')
    /\ UNCHANGED <<mounted, uncaught, devicePixelRatio, imageLoaded, srcImage,
                   srcWidth, srcHeight, srcName, aspectMode, presetName,
                   presets, storage, storageWritable, loads, exports,
                   lastDownload, presetsJob, saved, callVars>>

\* A filter that drops the first preset of that name only.
RECURSIVE filterOutFirst(_, _)
filterOutFirst(ps, name) ==
    IF ps = <<>> THEN <<>>
    ELSE IF Head(ps).name = name THEN Tail(ps)
    ELSE <<Head(ps)>> \o filterOutFirst(Tail(ps), name)

\* presets.value.filter((p) => p.name !== name)
RECURSIVE filterOut(_, _)
filterOut(ps, name) ==
    IF ps = <<>> THEN <<>>
    ELSE IF Head(ps).name = name THEN filterOut(Tail(ps), name)
    ELSE <<Head(ps)>> \o filterOut(Tail(ps), name)

\* deletePreset(preset), preset any object with a name.
deletePresetOf(preset) ==
    /\ Idle
    /\ presets' = filterOut(presets, preset.name)
    /\ storage' = savePresetsToStorage(storage, presets')
    /\ presetsJob' = TRUE
    /\ saved' = IF saved.name = preset.name THEN NoSaved ELSE saved
    /\ UNCHANGED <<mounted, uncaught, devicePixelRatio, imageLoaded, srcImage,
                   srcWidth, srcHeight, srcName, targetWidth, targetHeight,
                   targetFormat, aspectMode, backgroundMode, backgroundColor,
                   isPickingColor, presetName, storageWritable, canvas, loads,
                   exports, lastDownload, specJob, callVars>>

\* deletePreset(preset), preset the i-th of the list.
deletePreset(i) ==
    /\ i \in DOMAIN presets
    /\ deletePresetOf(presets[i])

(***************************************************************************)
(* Export: downloadImage and the callback of toBlob.                       *)
(***************************************************************************)
formatExtension(format) ==
    CASE format = "image/png" -> "png"
      [] format = "image/jpeg" -> "jpg"
      [] format = "image/webp" -> "webp"
      [] OTHER -> "img"

\* A replace that cuts the name at its first dot.
StripExtensions(name) ==
    IF Len(name) >= 2 /\ name[Len(name)] # "" THEN <<name[1]>> ELSE name

\* originalName.replace(/\.[^.]+$/, ""): a name is held cut at its dots, and
\* its last piece goes when it is not the only one and is not empty.
StripExtension(name) ==
    IF Len(name) >= 2 /\ name[Len(name)] # ""
      THEN SubSeq(name, 1, Len(name) - 1)
      ELSE name

\* `${base || "image"}-${width}x${height}.${formatExtension(mime)}`
Filename(name, width, height, mime) ==
    LET originalName == IF name = <<"">> THEN <<"image">> ELSE name
        base == StripExtension(originalName)
    IN  [base |-> IF base = <<"">> THEN <<"image">> ELSE base,
         width |-> width, height |-> height, ext |-> formatExtension(mime)]

\* An export canvas sized in the preview's pixels.
exportCanvasDense(cv, width, height) ==
    [width |-> cv.width, height |-> cv.height,
     sx |-> 0, sy |-> 0, sWidth |-> cv.width, sHeight |-> cv.height,
     dx |-> 0, dy |-> 0, dWidth |-> cv.width, dHeight |-> cv.height,
     source |-> cv]

\* The export canvas: width x height pixels, the whole preview drawn into it.
exportCanvas(cv, width, height) ==
    [width |-> width, height |-> height,
     sx |-> 0, sy |-> 0, sWidth |-> cv.width, sHeight |-> cv.height,
     dx |-> 0, dy |-> 0, dWidth |-> width, dHeight |-> height,
     source |-> cv]

\* downloadImage, up to its call of toBlob.
downloadImage ==
    /\ Idle
    /\ IF ~canvas.el \/ ~imageLoaded
         THEN UNCHANGED <<targetWidth, targetHeight, canvas, exports, specJob>>
         ELSE LET r == renderCanvas(canvas, targetWidth, targetHeight,
                         aspectMode, backgroundMode, backgroundColor, srcImage,
                         srcWidth, srcHeight, TRUE)
                  width == clampDimension(r.targetWidth)
                  height == clampDimension(r.targetHeight)
                  mime == OrString(targetFormat, "image/png")
                  isJpegLike == mime \in {"image/jpeg", "image/jpg", "image/webp"}
              IN  /\ Len(exports) < MaxExports
                  /\ targetWidth' = r.targetWidth
                  /\ targetHeight' = r.targetHeight
                  /\ canvas' = r.canvas
                  /\ specJob' = SpecChanged(targetWidth', targetHeight',
                                  aspectMode, backgroundMode, backgroundColor)
                  /\ exports' = Append(exports,
                       [surface |-> exportCanvas(r.canvas, width, height),
                        mime |-> mime,
                        quality |-> IF isJpegLike THEN "0.92" ELSE "undefined",
                        filename |-> Filename(srcName, width, height, mime),
                        requested |-> <<targetWidth, targetHeight>>,
                        name |-> srcName])
    /\ UNCHANGED <<mounted, uncaught, devicePixelRatio, imageLoaded, srcImage,
                   srcWidth, srcHeight, srcName, targetFormat, aspectMode,
                   backgroundMode, backgroundColor, isPickingColor, presetName,
                   presets, storage, storageWritable, loads, lastDownload,
                   presetsJob, saved, callVars>>

\* The file a.click() downloads for an export.
Downloaded(export) ==
    [filename |-> export.filename,
     border |-> export.surface.source.border,
     width |-> export.surface.width,
     height |-> export.surface.height]

\* A callback that downloads whatever the encoder yields.
DownloadAlways(previous, export, blob) == Downloaded(export)

\* if (!blob) return; then the download: the last file downloaded.
Download(previous, export, blob) ==
    IF blob THEN Downloaded(export) ELSE previous

\* The callback of toBlob for the k-th encode in flight; blob: whether the
\* encoder yields a buffer.
toBlobCallback(k, blob) ==
    /\ Idle
    /\ k \in DOMAIN exports
    /\ LET r == renderCanvas(canvas, targetWidth, targetHeight, aspectMode,
                  backgroundMode, backgroundColor, srcImage, srcWidth, srcHeight,
                  FALSE)
       IN  /\ targetWidth' = r.targetWidth
           /\ targetHeight' = r.targetHeight
           /\ canvas' = r.canvas
           /\ specJob' = SpecChanged(targetWidth', targetHeight', aspectMode,
                                     backgroundMode, backgroundColor)
    /\ lastDownload' = Download(lastDownload, exports[k], blob)
    /\ exports' = Remove(exports, k)
    /\ UNCHANGED <<mounted, uncaught, devicePixelRatio, imageLoaded, srcImage,
                   srcWidth, srcHeight, srcName, targetFormat, aspectMode,
                   backgroundMode, backgroundColor, isPickingColor, presetName,
                   presets, storage, storageWritable, loads, presetsJob, saved,
                   callVars>>

(***************************************************************************)
(* The environments and inputs of the bounded sessions.                    *)
(***************************************************************************)
\* i + 1/2, to the model's resolution.
Half(i) == Num(i * Den + Den \div 2)

\* A preset as this version saves it, and one of an older schema.
PresetA ==
    [name |-> <<"A">>, width |-> Whole(400), height |-> Whole(300),
     format |-> "image/jpeg", backgroundMode |-> "color",
     backgroundColor |-> "#1a2b3c"]

LegacyA ==
    [name |-> <<"A">>, width |-> Whole(800), height |-> Whole(420),
     format |-> Absent, backgroundMode |-> Absent, backgroundColor |-> Absent]

PresetB ==
    [name |-> <<"B">>, width |-> Whole(9000), height |-> Undefined,
     format |-> "image/webp", backgroundMode |-> "transparent",
     backgroundColor |-> ""]

\* A preset object that is in no list.
PresetC ==
    [name |-> <<"C">>, width |-> Whole(64), height |-> Whole(64),
     format |-> "image/png", backgroundMode |-> "transparent",
     backgroundColor |-> "#ffffff"]

\* A session of loads, edits, preset applications and exports.
Init ==
    /\ InitSession({StoredArray(<<PresetB>>)},
                   {[n |-> 0, d |-> 1], [n |-> 3, d |-> 2], [n |-> 2, d |-> 1]})
    /\ storageWritable
    /\ callArg = <<>>
    /\ callRes = <<>>

Next ==
    \/ onMounted
    \/ watchTargetSpec
    \/ watchPresets
    \/ \E v \in {EmptyString} : EditTargetWidth(v)
    \/ \E v \in {Half(2)} : EditTargetHeight(v)
    \/ \E f \in {NoFile, 1, 4} : handleFile(f)
    \/ \E k \in 1..MaxLoads : imgOnload(k)
    \/ \E i \in 0..MaxPresets : applyPreset(i)
    \/ downloadImage
    \/ \E k \in 1..MaxExports, blob \in BOOLEAN : toBlobCallback(k, blob)

Spec == Init /\ [][Next]_vars

\* A session of preset saves, applications and deletions, started on each
\* kind of stored value.
InitPresets ==
    /\ InitSession({StoredMissing, StoredCorrupt, StoredObject, StorageDisabled,
                    StoredArray(<<LegacyA, PresetA>>),
                    StoredArray(<<LegacyA, PresetB, PresetA>>)},
                   {[n |-> 0, d |-> 1]})
    /\ callArg = <<>>
    /\ callRes = <<>>

NextPresets ==
    \/ onMounted
    \/ watchTargetSpec
    \/ watchPresets
    \/ \E n \in {<<" ">>, <<" ", " ">>, <<" ", "A", " ">>, <<"B">>} :
         TypePresetName(n)
    \/ savePreset
    \/ \E i \in 0..MaxPresets : applyPreset(i)
    \/ \E i \in 1..MaxPresets : deletePreset(i)
    \/ \E p \in {PresetC} : deletePresetOf(p)
    \/ \E m \in {"fit", "fill"} : SelectAspectMode(m)
    \/ \E v \in {Whole(640)} : EditTargetWidth(v)

SpecPresets == InitPresets /\ [][NextPresets]_vars

(***************************************************************************)
(* The claims about presets.                                               *)
(***************************************************************************)
\* The current spec is, field by field, the spec the last savePreset saw.
SpecIsSaved ==
    /\ targetWidth = saved.width
    /\ targetHeight = saved.height
    /\ targetFormat = saved.format
    /\ aspectMode = saved.fitMode
    /\ backgroundMode = saved.backgroundMode
    /\ backgroundColor = saved.backgroundColor

\* C1: saving a spec as a preset, changing the current spec and then applying
\* the saved preset reproduces every field of the saved spec, the fit mode
\* included.
C1_RoundTrip ==
    [][\A i \in DOMAIN presets :
         (/\ applyPreset(i)
          /\ saved.valid
          /\ i = findIndex(presets, saved.name))
           => SpecIsSaved']_vars

\* How many entries of the list have this name.
CountNamed(ps, name) == Cardinality({j \in DOMAIN ps : ps[j].name = name})

\* C2: saving under a name that already exists replaces the entry at its
\* index: the length and every other entry are unchanged and the single entry
\* of that name holds the spec saved; saving under a new name appends one
\* entry at the end.
C2_SaveUpsert ==
    [][(savePreset /\ Trim(presetName) # <<>>) =>
         LET name == Trim(presetName)
             at == findIndex(presets, name)
         IN  IF at >= 1
               THEN /\ Len(presets') = Len(presets)
                    /\ \A j \in DOMAIN presets :
                         j # at => presets'[j] = presets[j]
                    /\ presets'[at] = NewPreset(name)
                    /\ CountNamed(presets', name) = 1
               ELSE presets' = Append(presets, NewPreset(name))]_vars

\* C3: once the collection is loaded, whatever is saved, deleted or applied,
\* it holds at most one preset per name.
C3_UniqueNames ==
    mounted =>
      \A i, j \in DOMAIN presets : presets[i].name = presets[j].name => i = j

\* C10: when the stored value is missing, is not parseable or is no array,
\* loading at session start yields an empty collection, raises nothing, and
\* the initial render follows.
C10_LoadFailureYieldsEmpty ==
    [][(onMounted /\ storage.kind \in {"missing", "corrupt", "object"}) =>
         /\ presets' = <<>>
         /\ ~uncaught'
         /\ canvas'.el
         /\ canvas'.logicalWidth = clampDimension(targetWidth)
         /\ canvas'.logicalHeight = clampDimension(targetHeight)]_vars

\* A session started on unparseable storage: no preset, the canvas painted.
C10_Witness ==
    /\ mounted
    /\ storage.kind = "corrupt"
    /\ presets = <<>>
    /\ ~uncaught
    /\ canvas.logicalWidth = InitialTargetWidth

\* C11: deletePreset removes every preset of the given name and leaves the
\* others in their order; when no preset has the name the collection is
\* unchanged; nothing is raised.
C11_Delete ==
    [][\A p \in {PresetA, PresetB, PresetC} :
         deletePresetOf(p) =>
           LET keep == {j \in DOMAIN presets : presets[j].name # p.name}
               \* the k-th smallest index kept
               Kept(k) == CHOOSE j \in keep :
                            Cardinality({x \in keep : x < j}) = k - 1
           IN  /\ Len(presets') = Cardinality(keep)
               /\ \A k \in 1..Len(presets') : presets'[k] = presets[Kept(k)]
               /\ keep = DOMAIN presets => presets' = presets
               /\ ~uncaught']_vars

\* Both presets named A deleted from a stored list of three, the one between
\* them left.
C11_Witness ==
    /\ mounted
    /\ presets = <<PresetB>>
    /\ storage = StoredArray(<<PresetB>>)

\* The fields of the spec other than the fit mode are those a preset lacking
\* them defaults to.
DefaultsButFitMode(preset) ==
    /\ preset.format = Absent => targetFormat' = "image/png"
    /\ preset.backgroundMode = Absent => backgroundMode' = "transparent"
    /\ preset.backgroundColor = Absent => backgroundColor' = "#ffffff"

\* C12: applying a preset that lacks fields sets each missing field to its
\* default (format PNG, fit mode FIT, background mode TRANSPARENT, background
\* color #ffffff) whatever the spec was; applying no preset changes nothing.
\* No stored preset has a fit mode.
C12_LegacyDefaults ==
    [][/\ \A i \in DOMAIN presets :
            applyPreset(i) =>
              /\ DefaultsButFitMode(presets[i])
              /\ aspectMode' = "fit"
       /\ applyPreset(0) => UNCHANGED vars]_vars

\* C14: saving under a name that is empty or only whitespace is a no-op: the
\* preset collection, the stored value and the current spec are unchanged.
C14_EmptyNameSave ==
    [][(savePreset /\ \A i \in DOMAIN presetName : presetName[i] = " ") =>
         UNCHANGED <<presets, storage, targetWidth, targetHeight, targetFormat,
                     aspectMode, backgroundMode, backgroundColor>>]_vars

\* A name of two spaces typed over a list of two presets: the save is enabled
\* and leaves every variable as it is.
C14_Witness ==
    /\ Idle
    /\ presetName = <<" ", " ">>
    /\ Len(presets) = 2
    /\ storage.kind = "array"
    /\ ENABLED savePreset

\* C17: a save that passes the name guard, or a delete, raises nothing and
\* mutates the in-memory list; when the storage write succeeds the value under
\* the key then deserializes to exactly the in-memory list, in the same order.
C17_StorageMirrorsPresets ==
    [][/\ (savePreset /\ Trim(presetName) # <<>>) =>
            /\ uncaught' = uncaught
            /\ findIndex(presets', Trim(presetName)) >= 1
            /\ presets'[findIndex(presets', Trim(presetName))]
                 = NewPreset(Trim(presetName))
            /\ storageWritable =>
                 (storage'.kind = "array" /\ JSONparse(storage') = presets')
       /\ \A p \in {presets[i] : i \in DOMAIN presets} \cup {PresetC} :
            deletePresetOf(p) =>
              /\ uncaught' = uncaught
              /\ CountNamed(presets', p.name) = 0
              /\ storageWritable =>
                   (storage'.kind = "array" /\ JSONparse(storage') = presets')
      ]_vars

\* Two presets saved on a storage that held nothing: the stored array is the
\* in-memory list.
C17_Witness ==
    /\ storageWritable
    /\ Len(presets) = 2
    /\ presets[1].name = <<"A">>
    /\ presets[2].name = <<"B">>
    /\ saved.name = <<"B">>
    /\ storage.kind = "array"
    /\ JSONparse(storage) = presets

(***************************************************************************)
(* The claims about the target dimensions and the export.                  *)
(***************************************************************************)
\* C4: in every reachable state, an image loaded or not, the target width and
\* height are integers in [1, 8000].
C4_DimensionsClamped ==
    ValidDimension(targetWidth) /\ ValidDimension(targetHeight)

\* The steps that render, each with the width and height it is asked for:
\* the current target values, or those of the preset applied.
RenderSteps(Holds(_, _, _)) ==
    /\ onMounted =>
         IF loadPresets(storage, presets).presets # <<>>
           THEN Holds(loadPresets(storage, presets).presets[1].width,
                      loadPresets(storage, presets).presets[1].height, "preset")
           ELSE Holds(targetWidth, targetHeight, "spec")
    /\ (watchTargetSpec /\ imageLoaded) => Holds(targetWidth, targetHeight, "spec")
    /\ (downloadImage /\ canvas.el /\ imageLoaded) =>
         Holds(targetWidth, targetHeight, "spec")
    /\ (\E k \in DOMAIN exports, blob \in BOOLEAN : toBlobCallback(k, blob)) =>
         Holds(targetWidth, targetHeight, "spec")
    /\ (\E k \in DOMAIN loads : imgOnload(k)) =>
         Holds(targetWidth, targetHeight, "load")
    /\ \A i \in DOMAIN presets :
         applyPreset(i) => Holds(presets[i].width, presets[i].height, "preset")

\* clamp as the claim states it: a non-finite, zero or unset request is 1.
ClampOrOne(v) == IF ~NumberIsFinite(v) \/ v.n = 0 THEN 1 ELSE clampDimension(v)

\* The render of this step used clamp(w) by clamp(h), fed them back to the
\* spec, and sized the surface width * density by height * density.
RenderedAsStated(w, h, kind) ==
    /\ canvas'.logicalWidth = ClampOrOne(w)
    /\ canvas'.logicalHeight = ClampOrOne(h)
    /\ targetWidth' = Whole(canvas'.logicalWidth)
    /\ targetHeight' = Whole(canvas'.logicalHeight)
    /\ canvas'.width * dpr.d = canvas'.logicalWidth * dpr.n
    /\ canvas'.height * dpr.d = canvas'.logicalHeight * dpr.n

\* C16 as stated: every render uses clamp(requested width) by
\* clamp(requested height), clamp mapping a non-finite, zero or unset request
\* to 1 whether or not an image is loaded; the spec then holds the rendered
\* values and the surface is width * density by height * density pixels.
C16_RenderClamp == [][RenderSteps(RenderedAsStated)]_vars

\* The source dimension, known once an image is loaded (or being loaded).
SourceOr(v, src) == IF Truthy(v) THEN v ELSE IF src # 0 THEN Whole(src) ELSE Whole(1)

\* Whether the integer p is the integer part of logical * density.
IntegerPart(p, logical) ==
    /\ p * dpr.d <= logical * dpr.n
    /\ logical * dpr.n < (p + 1) * dpr.d

RenderedAsAmended(w, h, kind) ==
    LET sw == IF kind = "load" THEN srcWidth' ELSE srcWidth
        sh == IF kind = "load" THEN srcHeight' ELSE srcHeight
        unset == kind = "load" /\ (~Truthy(w) \/ ~Truthy(h))
        rw == IF kind = "preset" THEN Whole(clampDimension(w))
              ELSE IF unset THEN Whole(sw) ELSE SourceOr(w, sw)
        rh == IF kind = "preset" THEN Whole(clampDimension(h))
              ELSE IF unset THEN Whole(sh) ELSE SourceOr(h, sh)
    IN  /\ canvas'.logicalWidth = clampDimension(rw)
        /\ canvas'.logicalHeight = clampDimension(rh)
        /\ targetWidth' = Whole(canvas'.logicalWidth)
        /\ targetHeight' = Whole(canvas'.logicalHeight)
        /\ IntegerPart(canvas'.width, canvas'.logicalWidth)
        /\ IntegerPart(canvas'.height, canvas'.logicalHeight)

\* C16 (amended): every render uses clamp(width) by clamp(height), clamp
\* rounding to the nearest integer, bounding to [1, 8000] and mapping a
\* non-finite value to 1; a zero or unset target value is first replaced by the
\* loaded source's dimension and is 1 only when no source is loaded or when it
\* comes from a preset; the render that completes a load replaces both target
\* values by the source's when either is zero or unset; the spec then holds
\* the rendered values and the surface is the integer part of
\* width * density by the integer part of height * density pixels.
C16_RenderClampOrSource == [][RenderSteps(RenderedAsAmended)]_vars

\* A render at density 1.5, an image loaded: the cleared width has become the
\* source's 300 and the height 2.5 has become 3, on a surface of 450 by 4.
C16_Witness ==
    /\ imageLoaded
    /\ devicePixelRatio = [n |-> 3, d |-> 2]
    /\ targetWidth = Whole(300)
    /\ targetHeight = Whole(3)
    /\ canvas.width = 450
    /\ canvas.height = 4

\* C5: the surface handed to the encoder is clamp(targetWidth) by
\* clamp(targetHeight) pixels whatever the density, and the whole preview is
\* scaled into the whole of it.
C5_ExportSize ==
    \A k \in DOMAIN exports :
      LET e == exports[k].surface
          requested == exports[k].requested
      IN  /\ e.width = clampDimension(requested[1])
          /\ e.height = clampDimension(requested[2])
          /\ e.sx = 0 /\ e.sy = 0
          /\ e.sWidth = e.source.width /\ e.sHeight = e.source.height
          /\ e.dx = 0 /\ e.dy = 0
          /\ e.dWidth = e.width /\ e.dHeight = e.height

\* An export in flight on a display whose density is not 1.
C5_Witness ==
    /\ exports # <<>>
    /\ dpr.n # dpr.d
    /\ exports[1].surface.source.width # exports[1].surface.width

\* C6: the surface captured for an export was drawn by a render with
\* forExport = true and has no border, whatever ran before or runs after.
C6_ExportHasNoBorder ==
    /\ \A k \in DOMAIN exports :
         /\ exports[k].surface.source.forExport
         /\ ~exports[k].surface.source.border
    /\ ~lastDownload.border

\* Two exports in flight after one has completed, the preview since painted
\* again with its border by a later handler.
C6_Witness ==
    /\ Len(exports) = 2
    /\ lastDownload # NoDownload
    /\ canvas.border
    /\ exports[1].surface.source.image # NoImage

(***************************************************************************)
(* clampDimension on its own: one call on each requested value.            *)
(***************************************************************************)
\* The numbers within ClampSpan of i, to the model's resolution.
Around(i) == {Num(n) : n \in ((i - ClampSpan) * Den)..((i + ClampSpan) * Den)}

ClampInputs ==
    Around(0) \cup Around(InitialTargetWidth) \cup Around(MaxDimension)
      \cup {NaN, PosInfinity, NegInfinity, EmptyString, Undefined}

\* The refs of a page that is not mounted: the calls below leave them alone.
InitUnmounted ==
    /\ InitSession({StoredMissing}, {[n |-> 0, d |-> 1]})
    /\ storageWritable

InitClamp ==
    /\ InitUnmounted
    /\ callArg \in {<<v>> : v \in ClampInputs}
    /\ callRes = <<>>

callClampDimension ==
    /\ callRes = <<>>
    /\ callRes' = <<clampDimension(callArg[1])>>
    /\ UNCHANGED <<sessionVars, callArg>>

NextClamp == callClampDimension

SpecClamp == InitClamp /\ [][NextClamp]_vars

\* C9: for every requested value v, clampDimension(v) is an integer in
\* [1, 8000]; it is round(v) (the nearest integer, a tie going up) whenever
\* round(v) lies in [1, 8000], it is 1 when round(v) < 1 or v is not a finite
\* number, and it is 8000 when round(v) > 8000.
C9_ClampDimension ==
    callRes # <<>> =>
      LET v == callArg[1]
          r == callRes[1]
      IN  /\ r \in MinDimension..MaxDimension
          /\ ~NumberIsFinite(v) => r = 1
          /\ NumberIsFinite(v) =>
               \* round(v) = k  iff  k - 1/2 <= v < k + 1/2
               LET below == 2 * v.n < 2 * MinDimension * Den - Den
                   above == 2 * v.n >= 2 * MaxDimension * Den + Den
               IN  /\ below => r = 1
                   /\ above => r = 8000
                   /\ ~below /\ ~above =>
                        /\ 2 * r * Den - Den <= 2 * v.n
                        /\ 2 * v.n < 2 * r * Den + Den

\* A call on a fraction below the lower limit: -1/Den rounds to 0, clamped to 1.
C9_Witness == callArg = <<Num(-1)>> /\ callRes = <<1>>

(***************************************************************************)
(* JavaScript numbers in renderCanvas's geometry are IEEE 754 doubles.  A  *)
(* double is a record [s, m, e]: the sign, the significand as a string of  *)
(* bits (most significant first, no leading zero) and the exponent, that   *)
(* is s * m * 2^e.  Zero is DyZero.                                        *)
(***************************************************************************)
\* The bits of a double's significand.
Precision == 53
\* Quotient bits computed before rounding: enough for a quotient of sizes
\* below 2^14, which is at least 2^-14.
QuotientBits == Precision + 15

RECURSIVE Bits(_)
Bits(n) == IF n = 0 THEN <<>> ELSE Bits(n \div 2) \o <<n % 2>>

Zeros(k) == [i \in 1..k |-> 0]

Reverse(b) == [i \in 1..Len(b) |-> b[Len(b) + 1 - i]]

StripLeading(b) ==
    LET ones == {i \in DOMAIN b : b[i] = 1}
    IN  IF ones = {} THEN <<>>
        ELSE SubSeq(b, CHOOSE i \in ones : \A j \in ones : i <= j, Len(b))

DyZero == [s |-> 0, m |-> <<>>, e |-> 0]

Dy(s, bits, e) ==
    LET b == StripLeading(bits)
    IN  IF b = <<>> THEN DyZero ELSE [s |-> s, m |-> b, e |-> e]

DyInt(n) ==
    IF n = 0 THEN DyZero
    ELSE [s |-> IF n > 0 THEN 1 ELSE -1,
          m |-> Bits(IF n > 0 THEN n ELSE -n), e |-> 0]

\* b + 1
Increment(b) ==
    LET zeros == {i \in DOMAIN b : b[i] = 0}
    IN  IF zeros = {} THEN <<1>> \o Zeros(Len(b))
        ELSE LET p == CHOOSE i \in zeros : \A j \in zeros : i >= j
             IN  [i \in 1..Len(b) |->
                    IF i < p THEN b[i] ELSE IF i = p THEN 1 ELSE 0]

\* a + b, a - b (a >= b) and m * k on bit strings written least significant
\* bit first: the carry runs from position lo to position hi.
RECURSIVE AddBits(_, _, _, _, _)
AddBits(a, b, lo, hi, carry) ==
    IF lo > hi THEN [bits |-> <<>>, c |-> carry]
    ELSE IF lo = hi
      THEN LET t == a[lo] + b[lo] + carry
           IN  [bits |-> <<t % 2>>, c |-> t \div 2]
    ELSE LET mid == (lo + hi) \div 2
             low == AddBits(a, b, lo, mid, carry)
             high == AddBits(a, b, mid + 1, hi, low.c)
         IN  [bits |-> low.bits \o high.bits, c |-> high.c]

RECURSIVE SubBits(_, _, _, _, _)
SubBits(a, b, lo, hi, borrow) ==
    IF lo > hi THEN [bits |-> <<>>, c |-> borrow]
    ELSE IF lo = hi
      THEN LET t == a[lo] - b[lo] - borrow
           IN  [bits |-> <<IF t < 0 THEN t + 2 ELSE t>>,
                c |-> IF t < 0 THEN 1 ELSE 0]
    ELSE LET mid == (lo + hi) \div 2
             low == SubBits(a, b, lo, mid, borrow)
             high == SubBits(a, b, mid + 1, hi, low.c)
         IN  [bits |-> low.bits \o high.bits, c |-> high.c]

RECURSIVE MulBits(_, _, _, _, _)
MulBits(m, k, lo, hi, carry) ==
    IF lo > hi THEN [bits |-> <<>>, c |-> carry]
    ELSE IF lo = hi
      THEN LET t == m[lo] * k + carry
           IN  [bits |-> <<t % 2>>, c |-> t \div 2]
    ELSE LET mid == (lo + hi) \div 2
             low == MulBits(m, k, lo, mid, carry)
             high == MulBits(m, k, mid + 1, hi, low.c)
         IN  [bits |-> low.bits \o high.bits, c |-> high.c]

\* The next n bits of r / b (r < b), and the remainder they leave.
RECURSIVE DivBits(_, _, _)
DivBits(r, b, n) ==
    IF n = 0 THEN [bits |-> <<>>, r |-> r]
    ELSE IF n = 1
      THEN LET d == IF 2 * r >= b THEN 1 ELSE 0
           IN  [bits |-> <<d>>, r |-> 2 * r - d * b]
    ELSE LET first == DivBits(r, b, n \div 2)
             second == DivBits(first.r, b, n - n \div 2)
         IN  [bits |-> first.bits \o second.bits, r |-> second.r]

\* a < b, bit strings of one length.
LexLess(a, b) ==
    \E i \in DOMAIN a : a[i] < b[i] /\ \A j \in 1..(i - 1) : a[j] = b[j]

\* Exact arithmetic on these values, for the results before rounding.
DyNeg(x) == [x EXCEPT !.s = -x.s]
DyAbs(x) == [x EXCEPT !.s = IF x.s = 0 THEN 0 ELSE 1]
\* x * 2^k
DyScale(x, k) == IF x.s = 0 THEN x ELSE [x EXCEPT !.e = x.e + k]

DyAdd(x, y) ==
    IF x.s = 0 THEN y
    ELSE IF y.s = 0 THEN x
    ELSE
      LET e0 == Min(x.e, y.e)
          xa == x.m \o Zeros(x.e - e0)
          ya == y.m \o Zeros(y.e - e0)
          n == Max(Len(xa), Len(ya))
          xb == Zeros(n - Len(xa)) \o xa
          yb == Zeros(n - Len(ya)) \o ya
          xr == Reverse(xb)
          yr == Reverse(yb)
          sum == AddBits(xr, yr, 1, n, 0)
      IN  IF x.s = y.s THEN Dy(x.s, Bits(sum.c) \o Reverse(sum.bits), e0)
          ELSE IF LexLess(xb, yb)
            THEN Dy(y.s, Reverse(SubBits(yr, xr, 1, n, 0).bits), e0)
          ELSE Dy(x.s, Reverse(SubBits(xr, yr, 1, n, 0).bits), e0)

DyLE(x, y) == DyAdd(x, DyNeg(y)).s <= 0
DyEq(x, y) == DyAdd(x, DyNeg(y)).s = 0

\* x * k, k a positive integer
DyMulInt(x, k) ==
    IF x.s = 0 THEN x
    ELSE LET p == MulBits(Reverse(x.m), k, 1, Len(x.m), 0)
         IN  Dy(x.s, Bits(p.c) \o Reverse(p.bits), x.e)

\* The double nearest to x, a tie going to the even significand; sticky says
\* that bits were dropped beyond those of x.
Round(x, sticky) ==
    IF x.s = 0 THEN x
    ELSE IF Len(x.m) <= Precision
      THEN [x EXCEPT !.m = x.m \o Zeros(Precision - Len(x.m)),
                     !.e = x.e - (Precision - Len(x.m))]
    ELSE
      LET keep == SubSeq(x.m, 1, Precision)
          guard == x.m[Precision + 1]
          rest == sticky \/ \E i \in (Precision + 2)..Len(x.m) : x.m[i] = 1
          up == guard = 1 /\ (rest \/ keep[Precision] = 1)
          e1 == x.e + (Len(x.m) - Precision)
          inc == Increment(keep)
      IN  IF ~up THEN [s |-> x.s, m |-> keep, e |-> e1]
          ELSE IF Len(inc) > Precision
            THEN [s |-> x.s, m |-> SubSeq(inc, 1, Precision), e |-> e1 + 1]
          ELSE [s |-> x.s, m |-> inc, e |-> e1]

\* The operators of the geometry: a / b and k * x for positive integers a, b
\* and k, x - y, Math.min and Math.max.
FInt(n) == Round(DyInt(n), FALSE)
FDiv(a, b) ==
    LET q == DivBits(a % b, b, QuotientBits)
    IN  Round(Dy(1, Bits(a \div b) \o q.bits, -QuotientBits), q.r # 0)
FMulInt(k, x) == Round(DyMulInt(x, k), FALSE)
FSub(x, y) == Round(DyAdd(x, DyNeg(y)), FALSE)
FMin(x, y) == IF DyLE(x, y) THEN x ELSE y
FMax(x, y) == IF DyLE(x, y) THEN y ELSE x

(***************************************************************************)
(* The rectangle renderCanvas hands to drawImage.                          *)
(***************************************************************************)
scaleFit(sw, sh, width, height) == FMin(FDiv(width, sw), FDiv(height, sh))
scaleFill(sw, sh, width, height) == FMax(FDiv(width, sw), FDiv(height, sh))

\* A choice of scale with the two modes exchanged.
scaleSwapped(mode, fit, fill) == IF mode = "fill" THEN fit ELSE fill

scale(mode, fit, fill) == IF mode = "fill" THEN fill ELSE fit

\* An offset that is the whole of the free space, not half of it.
offsetUnhalved(extent, drawn) == FSub(FInt(extent), drawn)

\* offsetX, offsetY: (extent - drawn) / 2
offset(extent, drawn) == DyScale(FSub(FInt(extent), drawn), -1)

Geometry(sw, sh, width, height, mode) ==
    LET s == scale(mode, scaleFit(sw, sh, width, height),
                   scaleFill(sw, sh, width, height))
        drawWidth == FMulInt(sw, s)
        drawHeight == FMulInt(sh, s)
    IN  [drawWidth |-> drawWidth, drawHeight |-> drawHeight,
         offsetX |-> offset(width, drawWidth),
         offsetY |-> offset(height, drawHeight)]

\* Source sizes and target sizes of the calls, the limits of the target
\* range among them.
SourceSizes == {1, 7, 11, 300}
TargetSizes == {MinDimension, 5, 15, 29, MaxDimension}

InitGeometry ==
    /\ InitUnmounted
    /\ callArg \in SourceSizes \X SourceSizes \X TargetSizes \X TargetSizes
                     \X {"fit", "fill"}
    /\ callRes = <<>>

callGeometry ==
    /\ callRes = <<>>
    /\ callRes' = <<Geometry(callArg[1], callArg[2], callArg[3], callArg[4],
                             callArg[5])>>
    /\ UNCHANGED <<sessionVars, callArg>>

NextGeometry == callGeometry

SpecGeometry == InitGeometry /\ [][NextGeometry]_vars

\* x <= y + ref * 2^-50 and |x - y| <= ref * 2^-50
AtMost(x, y, ref) == DyLE(DyAdd(x, DyNeg(y)), DyScale(ref, -50))
Near(x, y, ref) == DyLE(DyAbs(DyAdd(x, DyNeg(y))), DyScale(ref, -50))

\* C7 as stated: in FIT mode drawWidth <= width and drawHeight <= height, at
\* least one of the two exactly equal, drawWidth/drawHeight equal to
\* srcW/srcH, both offsets non-negative and centering the image.
C7_FitExact ==
    callRes # <<>> /\ callArg[5] = "fit" =>
      LET g == callRes[1]
          W == DyInt(callArg[3])
          H == DyInt(callArg[4])
      IN  /\ DyLE(g.drawWidth, W)
          /\ DyLE(g.drawHeight, H)
          /\ DyEq(g.drawWidth, W) \/ DyEq(g.drawHeight, H)
          /\ DyEq(DyMulInt(g.drawWidth, callArg[2]),
                  DyMulInt(g.drawHeight, callArg[1]))
          /\ g.offsetX.s >= 0
          /\ g.offsetY.s >= 0
          /\ DyEq(DyAdd(DyScale(g.offsetX, 1), g.drawWidth), W)
          /\ DyEq(DyAdd(DyScale(g.offsetY, 1), g.drawHeight), H)

\* C7 (amended): in FIT mode, each relation up to a relative tolerance of
\* 2^-50: drawWidth <= width and drawHeight <= height, at least one of the
\* two equal to its target, drawWidth * srcH equal to drawHeight * srcW, both
\* offsets non-negative and twice the offset plus the drawn size equal to the
\* target size.
C7_FitWithinTolerance ==
    callRes # <<>> /\ callArg[5] = "fit" =>
      LET g == callRes[1]
          W == DyInt(callArg[3])
          H == DyInt(callArg[4])
          cross == DyMulInt(g.drawWidth, callArg[2])
      IN  /\ AtMost(g.drawWidth, W, W)
          /\ AtMost(g.drawHeight, H, H)
          /\ Near(g.drawWidth, W, W) \/ Near(g.drawHeight, H, H)
          /\ Near(cross, DyMulInt(g.drawHeight, callArg[1]), cross)
          /\ AtMost(DyZero, g.offsetX, W)
          /\ AtMost(DyZero, g.offsetY, H)
          /\ Near(DyAdd(DyScale(g.offsetX, 1), g.drawWidth), W, W)
          /\ Near(DyAdd(DyScale(g.offsetY, 1), g.drawHeight), H, H)

\* A letterboxed FIT: a 7 x 11 source in a 29 x 15 target leaves free space
\* left and right.
C7_Witness ==
    /\ callArg = <<7, 11, 29, 15, "fit">>
    /\ callRes # <<>>
    /\ callRes[1].offsetX.s = 1
    /\ ~DyLE(DyInt(29), callRes[1].drawWidth)

InitExport ==
    /\ InitSession({StoredMissing}, {[n |-> 3, d |-> 2]})
    /\ storageWritable
    /\ callArg = <<>>
    /\ callRes = <<>>

\* The user waits for a load or an encode in flight before the next.
NextExport ==
    \/ onMounted
    \/ watchTargetSpec
    \/ \E f \in {1, 5, 6, 7} : loads = <<>> /\ exports = <<>> /\ handleFile(f)
    \/ \E k \in 1..MaxLoads : imgOnload(k)
    \/ \E f \in {"image/jpeg", "image/webp", "image/gif"} : SelectTargetFormat(f)
    \/ \E v \in {Whole(9000)} : EditTargetWidth(v)
    \/ exports = <<>> /\ downloadImage
    \/ \E k \in 1..MaxExports, blob \in BOOLEAN : toBlobCallback(k, blob)

SpecExport == InitExport /\ [][NextExport]_vars

\* The base of each source name of this session: the name less its last
\* extension, "image" when nothing is left.
BaseOf(name) ==
    CASE name = <<"photo", "heic">> -> <<"photo">>
      [] name = <<"", "png">> -> <<"image">>
      [] name = <<"archive", "tar", "gz">> -> <<"archive", "tar">>
      [] name = <<"photo", "">> -> <<"photo", "">>
      [] name = <<"image">> -> <<"image">>

\* C13: the exported file name is {base}-{width}x{height}.{ext}: base the
\* source name less its last extension ("image" when the name is absent or
\* the base empty), width and height the clamped target dimensions of the
\* exported surface, ext png, jpg or webp for PNG, JPEG and WEBP and img for
\* any other format.
C13_Filename ==
    \A k \in DOMAIN exports :
      LET e == exports[k]
          fn == e.filename
      IN  /\ fn.base = BaseOf(e.name)
          /\ fn.width = e.surface.width
          /\ fn.width = clampDimension(e.requested[1])
          /\ fn.height = e.surface.height
          /\ fn.height = clampDimension(e.requested[2])
          /\ e.mime = "image/png" => fn.ext = "png"
          /\ e.mime = "image/jpeg" => fn.ext = "jpg"
          /\ e.mime = "image/webp" => fn.ext = "webp"
          /\ e.mime \notin {"image/png", "image/jpeg", "image/webp"}
               => fn.ext = "img"

\* An export of archive.tar.gz in a format that is none of the three, its
\* width cut to the upper limit.
C13_Witness ==
    \E k \in DOMAIN exports :
      /\ exports[k].name = <<"archive", "tar", "gz">>
      /\ exports[k].mime = "image/gif"
      /\ exports[k].filename.width = MaxDimension

\* A session of one image and its exports, one at a time, the width edited
\* and the format selected meanwhile, with the scheduling of the event loop: a
\* queued watcher callback runs, and the task that toBlob queued runs; the
\* callback waits for the watcher callbacks queued by the task before it, which
\* run first, so its fairness is strong.
NextExportFair ==
    \/ onMounted
    \/ watchTargetSpec
    \/ \E f \in {1} : loads = <<>> /\ exports = <<>> /\ handleFile(f)
    \/ \E k \in 1..MaxLoads : imgOnload(k)
    \/ \E f \in {"image/jpeg"} : SelectTargetFormat(f)
    \/ \E v \in {Whole(9000), EmptyString} : EditTargetWidth(v)
    \/ exports = <<>> /\ downloadImage
    \/ \E k \in 1..MaxExports, blob \in BOOLEAN : toBlobCallback(k, blob)

SpecExportFair ==
    /\ InitExport
    /\ [][NextExportFair]_vars
    /\ WF_vars(watchTargetSpec)
    /\ SF_vars(\E k \in 1..MaxExports, blob \in BOOLEAN : toBlobCallback(k, blob))

\* The preview is an interactive render of the current spec and source.
PreviewOfSpec ==
    /\ ~canvas.forExport
    /\ canvas.border = (srcImage # NoImage)
    /\ targetWidth = Whole(canvas.logicalWidth)
    /\ targetHeight = Whole(canvas.logicalHeight)
    /\ canvas.image = srcImage
    /\ canvas.mode = (IF srcImage = NoImage THEN "none" ELSE aspectMode)
    /\ canvas.fill = (IF backgroundMode = "color"
                        THEN OrString(backgroundColor, "#ffffff")
                        ELSE "transparent")

\* C18: an export requested with an image loaded completes, and once: its
\* encode leaves the set of encodes in flight; at completion a download is
\* triggered exactly when the encoder yields a buffer, and in both outcomes
\* the preview is rendered again in interactive mode, border drawn, from the
\* spec current at that moment; an export requested with no image loaded
\* changes nothing.
C18_ExportCompletes ==
    /\ (exports # <<>>) ~> (exports = <<>>)
    /\ [][/\ \A k \in DOMAIN exports :
               /\ toBlobCallback(k, TRUE) =>
                    /\ lastDownload' = Downloaded(exports[k])
                    /\ exports' = Remove(exports, k)
                    /\ PreviewOfSpec'
               /\ toBlobCallback(k, FALSE) =>
                    /\ lastDownload' = lastDownload
                    /\ exports' = Remove(exports, k)
                    /\ PreviewOfSpec'
          /\ (downloadImage /\ imageLoaded) => Len(exports') = Len(exports) + 1
          /\ (downloadImage /\ ~imageLoaded) => UNCHANGED vars]_vars

\* An export has completed with a download, of a width requested before the
\* width was edited; the preview shows the edited width with its border.
C18_Witness ==
    /\ exports = <<>>
    /\ lastDownload # NoDownload
    /\ lastDownload.width # canvas.logicalWidth
    /\ canvas.border
    /\ ~canvas.forExport
    /\ canvas.logicalWidth = MaxDimension

(***************************************************************************)
(* A session of loads: files chosen, dropped and pasted, some rejected,    *)
(* some failing to decode, and loads requested while others are in flight. *)
(***************************************************************************)
InitLoads ==
    /\ InitSession({StoredMissing}, {[n |-> 0, d |-> 1]})
    /\ storageWritable
    /\ callArg = <<>>
    /\ callRes = <<>>

NextLoads ==
    \/ onMounted
    \/ watchTargetSpec
    \/ \E f \in {NoFile, 1, 3, 6} : handleFile(f)
    \/ \E f \in {NoFile, 4, 5} : onPaste(f)
    \/ \E k \in 1..MaxLoads : imgOnload(k)
    \/ \E k \in 1..MaxLoads : loadFails(k)
    \/ \E v \in {EmptyString} : EditTargetWidth(v)

SpecLoads == InitLoads /\ [][NextLoads]_vars

\* The files of this session that decode.
Decodable == {f \in {1, 5, 6} : File(f).decodes}

\* C15: once the loads requested have completed, in whatever order, the
\* source image, its dimensions and the source name are those of the file
\* requested last.  (srcName is the name of the file requested last; when
\* that file decodes and nothing is in flight, its load has completed.)
C15_NewestLoadWins ==
    \A f \in Decodable :
      (loads = <<>> /\ srcName = File(f).name) =>
        /\ srcImage = f
        /\ srcWidth = File(f).width
        /\ srcHeight = File(f).height
\* The state a load is about: the loaded flag, the source, the name used for
\* export file names, and the target spec.
loadState ==
    <<imageLoaded, srcImage, srcWidth, srcHeight, srcName, targetWidth,
      targetHeight, targetFormat, aspectMode, backgroundMode, backgroundColor>>

\* C19: a load that is rejected (no file, or a file that is no image), and a
\* load of a file whose read or decode never succeeds, change none of the
\* loaded flag, source image, source dimensions, source name and target spec,
\* neither when requested nor when the failure arrives.
C19_FailedLoadChangesNothing ==
    [][/\ \A f \in {NoFile} \cup {g \in 1..7 : ~IsImageType(File(g).kind)
                                                \/ ~File(g).decodes} :
            (handleFile(f) \/ onPaste(f)) => UNCHANGED loadState
       /\ \A k \in DOMAIN loads : loadFails(k) => UNCHANGED loadState]_vars

(***************************************************************************)
(* A session on the preview: an image loaded, every field of the spec      *)
(* edited, a preset applied, a colour picked, an export made.              *)
(***************************************************************************)
InitPreview ==
    /\ InitSession({StoredArray(<<PresetA>>)}, {[n |-> 0, d |-> 1]})
    /\ storageWritable
    /\ callArg = <<>>
    /\ callRes = <<>>

NextPreview ==
    \/ onMounted
    \/ watchTargetSpec
    \/ watchPresets
    \/ \E f \in {1} : ~imageLoaded /\ loads = <<>> /\ handleFile(f)
    \/ \E k \in 1..MaxLoads : imgOnload(k)
    \/ \E v \in {EmptyString, Whole(640)} : EditTargetWidth(v)
    \/ \E v \in {Half(2)} : imageLoaded /\ EditTargetHeight(v)
    \/ \E m \in {"fit", "fill"} : SelectAspectMode(m)
    \/ \E m \in {"transparent", "color"} : imageLoaded /\ SelectBackgroundMode(m)
    \/ \E c \in {""} : imageLoaded /\ EditBackgroundColor(c)
    \/ \E i \in 0..MaxPresets : applyPreset(i)
    \/ startEyedropper
    \/ \E hex \in {ImagePixel, ClearPixel} : onCanvasClick(hex)
    \/ exports = <<>> /\ lastDownload = NoDownload /\ downloadImage
    \/ \E k \in 1..MaxExports, blob \in BOOLEAN : toBlobCallback(k, blob)

SpecPreview == InitPreview /\ [][NextPreview]_vars

\* The surface is what a render of the current spec and source draws, the
\* border apart.
RenderedFromSpec ==
    /\ targetWidth = Whole(canvas.logicalWidth)
    /\ targetHeight = Whole(canvas.logicalHeight)
    /\ canvas.width = Pixels(canvas.logicalWidth)
    /\ canvas.height = Pixels(canvas.logicalHeight)
    /\ canvas.image = srcImage
    /\ canvas.sw = srcWidth
    /\ canvas.sh = srcHeight
    /\ canvas.mode = aspectMode
    /\ canvas.fill = (IF backgroundMode = "color"
                        THEN OrString(backgroundColor, "#ffffff")
                        ELSE "transparent")

\* C20: while an image is loaded, whenever no handler runs and no watcher
\* callback is queued, the preview surface is a render of the current width,
\* height, fit mode, background mode and background color and of the current
\* source image, whichever of a user edit, a preset application or a color
\* pick changed them last.
C20_PreviewIsCurrent == (Idle /\ imageLoaded) => RenderedFromSpec

\* An image loaded, the fit mode edited to fill, a colour picked from the
\* image, the width edited: the preview shows all of it.
C20_Witness ==
    /\ Idle
    /\ imageLoaded
    /\ aspectMode = "fill"
    /\ backgroundMode = "color"
    /\ backgroundColor = ImagePixel
    /\ targetWidth = Whole(640)
    /\ canvas.mode = "fill"
    /\ canvas.logicalWidth = 640
    /\ canvas.fill = ImagePixel

====
